---- MODULE Spec2Model ----
(***************************************************************************)
(* A model of grammar.py, a miniature backtracking parsing library.        *)
(*                                                                         *)
(* A pattern is a record [tag, name, re, sub]: tag is the class (Terminal, *)
(* Empty, Seq, Pipe, Star, Plus), name the attribute Grammar.__init__      *)
(* binds ("" while unbound: `if self.name` treats None and '' alike), re   *)
(* the regular expression of a Terminal and sub the tuple of sub-patterns. *)
(* A sub-pattern is a pattern, or a reference by name (tag "Name") that    *)
(* Grammar.__getitem__ resolves.  A parse tree is a record                 *)
(* [k, name, re, text, kids]; the input string is a sequence of            *)
(* one-character strings and a position is an offset 0..Len(string).       *)
(***************************************************************************)
EXTENDS Integers, Sequences, FiniteSets, TLC

\* ------------------------------------------------------------ bounds
MaxLen == 3
MaxOffer == 6

Alphabet == {"a", "b"}

RECURSIVE StringsOfLen(_)
StringsOfLen(n) ==
    IF n = 0 THEN {<<>>}
    ELSE {Append(s, c) : s \in StringsOfLen(n - 1), c \in Alphabet}

Strings == UNION {StringsOfLen(n) : n \in 0..MaxLen}

\* ------------------------------------------------------------ patterns
Pat(tag, re, sub) == [tag |-> tag, name |-> "", re |-> re, sub |-> sub]

Ref(n) == [tag |-> "Name", name |-> n, re |-> "", sub |-> <<>>]

Terminal(re) == Pat("Terminal", re, <<>>)

Empty == Pat("Empty", "", <<>>)

\* State.__new__: an empty tuple of sub-patterns becomes (Empty(),)
State(tag, sub) == Pat(tag, "", IF sub = <<>> THEN <<Empty>> ELSE sub)

MkSeq(sub) == State("Seq", sub)

MkPipe(sub) == State("Pipe", sub)

MkStar(sub) == State("Star", sub)

MkPlus(sub) == State("Plus", sub)

\* `if self.name`
Named(p) == p.name # ""

\* Grammar.__getitem__: a State is returned as it is, a name is looked up
GetItem(grammar, state_or_name) ==
    IF state_or_name.tag = "Name" THEN grammar[state_or_name.name]
    ELSE state_or_name

\* ------------------------------------------------------------ parse trees
Tree(k, name, re, text, kids) ==
    [k |-> k, name |-> name, re |-> re, text |-> text, kids |-> kids]

\* None, the match of Empty
NoneTree == Tree("None", "", "", <<>>, <<>>)

\* (self, match.group()), the match of a Terminal
Leaf(p, text) == Tree("Leaf", p.name, p.re, text, <<>>)

\* a Python list of trees
ListTree(kids) == Tree("List", "", "", <<>>, kids)

\* the pair (name, match)
Node(name, match) == Tree("Node", name, "", <<>>, <<match>>)

PyTrue == Tree("True", "", "", <<>>, <<>>)

PyFalse == Tree("False", "", "", <<>>, <<>>)

\* Python truth value of a tree: None and [] are false, a tuple is true
Truthy(t) == ~(t.k = "None" \/ t.k = "False" \/ (t.k = "List" /\ t.kids = <<>>))

BadState(expected, start) == [exp |-> expected, pos |-> start]

\* what a drained generator gave: the candidates it yielded, the BadState it
\* raised (a sequence of zero or one), or hang when it never finishes
Gen(out, err, hang) == [out |-> out, err |-> err, hang |-> hang]

Cand(which, end) == [which |-> which, end |-> end]

Hang == Gen(<<>>, <<>>, TRUE)

Last(s) == s[Len(s)]

\* body(v) with v evaluated once, as a Python local is
With(v, body(_)) == CHOOSE y \in {body(x) : x \in {v}} : TRUE

\* ------------------------------------------------------------ Terminal
\* self[0].match(string, start): the end of the match anchored at start, or
\* -1 for None.  The regular expressions of the model are 'a', 'b', 'ab',
\* 'a?' and '$'.
ReMatch(re, string, start) ==
    LET at(i) == IF start + i <= Len(string) THEN string[start + i] ELSE ""
    IN  CASE re = "a" -> IF at(1) = "a" THEN start + 1 ELSE -1
          [] re = "b" -> IF at(1) = "b" THEN start + 1 ELSE -1
          [] re = "ab" -> IF at(1) = "a" /\ at(2) = "b" THEN start + 2 ELSE -1
          [] re = "a?" -> IF at(1) = "a" THEN start + 1 ELSE start
          [] re = "$" -> IF start = Len(string) THEN start ELSE -1
          [] re = "" -> start

\* match.group() taken for string[:end]
GroupFromZero(string, start, end) == SubSeq(string, 1, end)

\* match.group()
Group(string, start, end) == SubSeq(string, start + 1, end)

TerminalMatches(self, string, start) ==
    LET end == ReMatch(self.re, string, start)
    IN  IF end = -1 THEN Gen(<<>>, <<BadState(self, start)>>, FALSE)
        ELSE Gen(<<Cand(Leaf(self, Group(string, start, end)), end)>>, <<>>, FALSE)

EmptyMatches(self, string, start) ==
    Gen(<<Cand(NoneTree, start)>>, <<>>, FALSE)

\* ------------------------------------------------------------ fold
RECURSIVE Filter(_)
\* [m for m in match if m]
Filter(match) ==
    IF match = <<>> THEN <<>>
    ELSE IF Truthy(match[1]) THEN <<match[1]>> \o Filter(Tail(match))
    ELSE Filter(Tail(match))

RECURSIVE Splice(_)
\* the children with those of every list among them in its place
Splice(match) ==
    IF match = <<>> THEN <<>>
    ELSE IF match[1].k = "List" THEN match[1].kids \o Splice(Tail(match))
    ELSE <<match[1]>> \o Splice(Tail(match))

\* Seq.fold flattening the lists of its anonymous sub-patterns
SeqFoldSpliced(self, match) ==
    IF Named(self) THEN Node(self.name, ListTree(Splice(Filter(match))))
    ELSE ListTree(Splice(Filter(match)))

SeqFold(self, match) ==
    IF Named(self) THEN Node(self.name, ListTree(Filter(match)))
    ELSE ListTree(Filter(match))

PipeFold(self, match) ==
    IF Named(self) THEN Node(self.name, match)
    ELSE match

\* ------------------------------------------------------------ producers
\* The generator `choices` of Pipe.matches: the pattern it is suspended at,
\* whether it has ended (StopIteration), and how many patterns it has offered.
Choices(pattern, stop, n) == [pattern |-> pattern, stop |-> stop, n |-> n]

\* Star.__iter__ beginning with one repetition, as Plus.__iter__ does
ChoicesFirstOne(self) ==
    CASE self.tag \in {"Star", "Plus"} -> Choices(MkSeq(self.sub), FALSE, 1)
      [] OTHER -> Choices(self.sub[1], FALSE, 1)

\* iter(self) followed by choices.send(None)
ChoicesFirst(self) ==
    CASE self.tag = "Star" -> Choices(MkSeq(<<>>), FALSE, 1)
      [] self.tag = "Plus" -> Choices(MkSeq(self.sub), FALSE, 1)
      [] OTHER -> Choices(self.sub[1], FALSE, 1)

\* Star.__iter__ and Plus.__iter__ not looking at the first value sent
ChoicesSendLate(self, choices, value) ==
    IF self.tag \in {"Star", "Plus"}
    THEN IF value \/ choices.n < 2
         THEN Choices(MkSeq(choices.pattern.sub \o self.sub), FALSE, choices.n + 1)
         ELSE Choices(choices.pattern, TRUE, choices.n)
    ELSE IF choices.n < Len(self.sub)
         THEN Choices(self.sub[choices.n + 1], FALSE, choices.n + 1)
         ELSE Choices(choices.pattern, TRUE, choices.n)

\* choices.send(value): State.__iter__ ignores the value and goes through the
\* tuple; Star.__iter__ and Plus.__iter__ go on while the value is true
ChoicesSend(self, choices, value) ==
    IF self.tag \in {"Star", "Plus"}
    THEN IF value
         THEN Choices(MkSeq(choices.pattern.sub \o self.sub), FALSE, choices.n + 1)
         ELSE Choices(choices.pattern, TRUE, choices.n)
    ELSE IF choices.n < Len(self.sub)
         THEN Choices(self.sub[choices.n + 1], FALSE, choices.n + 1)
         ELSE Choices(choices.pattern, TRUE, choices.n)

\* ------------------------------------------------------------ matches
RECURSIVE Matches(_, _, _, _)
RECURSIVE SeqStep(_, _, _, _, _, _)
RECURSIVE SeqLoop(_, _, _, _, _, _)
RECURSIVE PipeLoop(_, _, _, _, _, _, _)

\* continuations(which, end), drained: the candidates of the pattern from
\* end, each appended to which, and the BadState the except clause catches
continuations(grammar, pattern, string, which, end) ==
    With(Matches(grammar, GetItem(grammar, pattern), string, end),
         LAMBDA r :
           [matches |-> [j \in 1..Len(r.out) |->
                            Cand(Append(which, r.out[j].which), r.out[j].end)],
            errors |-> r.err,
            hang |-> r.hang])

\* One round of the loop of Seq.matches over the entries lo..hi of the
\* working list: the continuations of every entry, in order, the BadStates
\* they add to errlist, and whether one of them never ends.  (The list is
\* halved so that the evaluation nests no deeper than its logarithm.)
SeqStep(grammar, pattern, string, matches, lo, hi) ==
    IF lo > hi THEN [matches |-> <<>>, errors |-> <<>>, hang |-> FALSE]
    ELSE IF lo = hi
    THEN continuations(grammar, pattern, string, matches[lo].which, matches[lo].end)
    ELSE With(<<SeqStep(grammar, pattern, string, matches, lo, (lo + hi) \div 2),
                SeqStep(grammar, pattern, string, matches, (lo + hi) \div 2 + 1, hi)>>,
              LAMBDA h :
                [matches |-> h[1].matches \o h[2].matches,
                 errors |-> h[1].errors \o h[2].errors,
                 hang |-> h[1].hang \/ h[2].hang])

\* the candidates Seq.matches yields after its loop
SeqYield(self, matches) ==
    [j \in 1..Len(matches) |-> Cand(SeqFold(self, matches[j].which), matches[j].end)]

\* Seq.matches from the i-th sub-pattern on
SeqLoop(self, grammar, string, i, matches, errlist) ==
    IF i > Len(self.sub) THEN Gen(SeqYield(self, matches), <<>>, FALSE)
    ELSE With(SeqStep(grammar, self.sub[i], string, matches, 1, Len(matches)),
              LAMBDA st :
                IF st.hang THEN Hang
                ELSE IF st.matches = <<>>
                THEN Gen(<<>>, <<Last(errlist \o st.errors)>>, FALSE)
                ELSE SeqLoop(self, grammar, string, i + 1, st.matches,
                             errlist \o st.errors))

SeqMatches(self, grammar, string, start) ==
    SeqLoop(self, grammar, string, 1, <<Cand(<<>>, start)>>,
            <<BadState(self, start)>>)

\* the body of the first try of Pipe.matches: the candidates of the offered
\* pattern, folded, and the flag appended to matched
PipeTry(self, grammar, string, start, pattern) ==
    With(Matches(grammar, GetItem(grammar, pattern), string, start),
         LAMBDA r :
           [out |-> [j \in 1..Len(r.out) |->
                        Cand(PipeFold(self, r.out[j].which), r.out[j].end)],
            matched |-> r.err = <<>>,
            hang |-> r.hang])

\* any(matched)
AnyMatched(matched) == \E j \in 1..Len(matched) : matched[j]

\* A position is never left backwards, so a chain of more than
\* Len(string) - start repetitions holds a repetition of width zero, which
\* can then be repeated for ever: once that many alternatives of a Star or a
\* Plus have all matched, every later one matches and the loop never ends.
Endless(self, string, start, matched) ==
    /\ self.tag \in {"Star", "Plus"}
    /\ Len(matched) >= Len(string) - start + 2
    /\ \A j \in 1..Len(matched) : matched[j]

\* the loop of Pipe.matches
PipeLoop(self, grammar, string, start, choices, out, matched) ==
    With(PipeTry(self, grammar, string, start, choices.pattern),
         LAMBDA t :
           LET matched_ == Append(matched, t.matched)
               next == ChoicesSend(self, choices, t.matched)
           IN  IF t.hang \/ Endless(self, string, start, matched_) THEN Hang
               ELSE IF next.stop
               THEN IF AnyMatched(matched_) THEN Gen(out \o t.out, <<>>, FALSE)
                    ELSE Gen(<<>>, <<BadState(self, start)>>, FALSE)
               ELSE PipeLoop(self, grammar, string, start, next, out \o t.out,
                             matched_))

PipeMatches(self, grammar, string, start) ==
    PipeLoop(self, grammar, string, start, ChoicesFirst(self), <<>>, <<>>)

\* self.matches(grammar, string, start), drained
Matches(grammar, self, string, start) ==
    CASE self.tag = "Terminal" -> TerminalMatches(self, string, start)
      [] self.tag = "Empty" -> EmptyMatches(self, string, start)
      [] self.tag = "Seq" -> SeqMatches(self, grammar, string, start)
      [] OTHER -> PipeMatches(self, grammar, string, start)

\* ------------------------------------------------------------ grammars
\* Grammar.__init__: every registered pattern gets its key as its name
Grammar(rules) == [n \in DOMAIN rules |-> [rules[n] EXCEPT !.name = n]]

Tags == {"Seq", "Pipe", "Star", "Plus"}

\* the rules every grammar of the model registers beside "top"
Fixed ==
    [x |-> Terminal("a"),
     pq |-> MkPipe(<<Terminal("ab"), Terminal("a")>>),
     top |-> Empty]

Atoms ==
    {Terminal("a"), Terminal("b"), Terminal("ab"), Terminal("a?"), Terminal("$"),
     Empty, Ref("x"), Ref("pq")}

\* the tuples of sub-patterns of a Star or of a Plus
Repeated ==
    {<<p>> : p \in Atoms}
    \cup {<<Terminal("a"), Terminal("b")>>, <<Terminal("a?"), Terminal("b")>>,
          <<Terminal("a?"), Terminal("$")>>, <<Empty, Terminal("a")>>}

Flat ==
    {State(tag, <<p>>) : tag \in {"Seq", "Pipe"}, p \in Atoms}
    \cup {State(tag, <<p, q>>) : tag \in {"Seq", "Pipe"}, p \in Atoms, q \in Atoms}
    \cup {State(tag, sub) : tag \in {"Star", "Plus"}, sub \in Repeated}

Inner ==
    {State(tag, <<p>>) : tag \in Tags,
                         p \in {Terminal("a"), Terminal("b"), Terminal("a?"),
                                Empty, Ref("pq")}}
    \cup {State(tag, <<Terminal("a"), Terminal("b")>>) : tag \in Tags}

Nested ==
    {MkSeq(<<p, t>>) : p \in Inner, t \in {Terminal("b"), Terminal("$")}}
    \cup {MkSeq(<<t, p>>) : p \in Inner, t \in {Terminal("b"), Terminal("$")}}
    \cup {State(tag, <<p>>) : tag \in {"Star", "Plus"},
                              p \in {q \in Inner : q.tag \in {"Seq", "Pipe"}
                                                    \/ q.sub[1] = Terminal("a")}}
    \cup {MkPipe(<<p, Terminal("a")>>) : p \in Inner}

TopRules == (Atoms \ {Ref("x"), Ref("pq")}) \cup Flat \cup Nested

Grammars == {Grammar([Fixed EXCEPT !.top = p]) : p \in TopRules}

\* ------------------------------------------------------------ state
VARIABLES
    grammar,    \* the Grammar
    name,       \* the rule is_valid and parse are called with
    string,     \* the input
    start,      \* where matches is called from (parse calls it from 0)
    pc,         \* where the call is
    i,          \* Seq.matches: the index of the sub-pattern of the next round
    matches,    \* Seq.matches: the working list
    errlist,    \* Seq.matches: the BadStates recorded
    mark,       \* Seq.matches: len(errlist) when the last round began
    choices,    \* Pipe.matches: the producer
    matched,    \* Pipe.matches: the flags of the alternatives tried
    out,        \* the candidates the rule's matches has yielded
    err,        \* the BadState it raised, if any
    parsed,     \* the outcome of parse
    valid       \* the outcome of is_valid

vars == <<grammar, name, string, start, pc, i, matches, errlist, mark, choices,
          matched, out, err, parsed, valid>>

\* the outcome of a call: kind is "none" (not over), "return", "BadState" or
\* "BadGrammar"; val the value returned, exc the BadState raised
Outcome(kind, val, exc) == [kind |-> kind, val |-> val, exc |-> exc]

NoOutcome == Outcome("none", NoneTree, <<>>)

Self == grammar[name]

Init ==
    /\ grammar \in Grammars
    /\ name = "top"
    /\ string \in Strings
    /\ start \in 0..Len(string)
    /\ pc = "call"
    /\ i = 0
    /\ matches = <<>>
    /\ errlist = <<>>
    /\ mark = 0
    /\ choices = Choices(Empty, TRUE, 0)
    /\ matched = <<>>
    /\ out = <<>>
    /\ err = <<>>
    /\ parsed = NoOutcome
    /\ valid = NoOutcome

\* Terminal.matches
CallTerminal ==
    /\ pc = "call"
    /\ Self.tag = "Terminal"
    /\ LET r == TerminalMatches(Self, string, start)
       IN  out' = r.out /\ err' = r.err
    /\ pc' = "drained"
    /\ UNCHANGED <<grammar, name, string, start, i, matches, errlist, mark,
                   choices, matched, parsed, valid>>

\* Empty.matches
CallEmpty ==
    /\ pc = "call"
    /\ Self.tag = "Empty"
    /\ LET r == EmptyMatches(Self, string, start)
       IN  out' = r.out /\ err' = r.err
    /\ pc' = "drained"
    /\ UNCHANGED <<grammar, name, string, start, i, matches, errlist, mark,
                   choices, matched, parsed, valid>>

\* Seq.matches up to its loop
SeqBegin ==
    /\ pc = "call"
    /\ Self.tag = "Seq"
    /\ errlist' = <<BadState(Self, start)>>
    /\ matches' = <<Cand(<<>>, start)>>
    /\ i' = 1
    /\ pc' = "seq"
    /\ UNCHANGED <<grammar, name, string, start, mark, choices, matched, out, err,
                   parsed, valid>>

\* one round of the loop of Seq.matches
SeqRound ==
    /\ pc = "seq"
    /\ i <= Len(Self.sub)
    /\ \E st \in {SeqStep(grammar, Self.sub[i], string, matches, 1, Len(matches))} :
           IF st.hang
           THEN /\ pc' = "hang"
                /\ UNCHANGED <<i, matches, errlist, mark, err>>
           ELSE /\ matches' = st.matches
                /\ errlist' = errlist \o st.errors
                /\ mark' = Len(errlist)
                /\ IF st.matches = <<>>
                   THEN /\ err' = <<Last(errlist \o st.errors)>>
                        /\ pc' = "drained"
                        /\ i' = i
                   ELSE /\ err' = err
                        /\ pc' = "seq"
                        /\ i' = i + 1
    /\ UNCHANGED <<grammar, name, string, start, choices, matched, out, parsed,
                   valid>>

\* Seq.matches after its loop
SeqEnd ==
    /\ pc = "seq"
    /\ i > Len(Self.sub)
    /\ out' = SeqYield(Self, matches)
    /\ pc' = "drained"
    /\ UNCHANGED <<grammar, name, string, start, i, matches, errlist, mark,
                   choices, matched, err, parsed, valid>>

\* Pipe.matches up to its loop
PipeBegin ==
    /\ pc = "call"
    /\ Self.tag \in {"Pipe", "Star", "Plus"}
    /\ choices' = ChoicesFirst(Self)
    /\ matched' = <<>>
    /\ pc' = "try"
    /\ UNCHANGED <<grammar, name, string, start, i, matches, errlist, mark, out,
                   err, parsed, valid>>

\* The first try of the loop of Pipe.matches: the offered pattern is matched.
\* The model keeps MaxOffer alternatives at most: a loop that has tried that
\* many is Endless, every later alternative matches as well, and the loop goes
\* on with choices, matched and out left as they are.
PipeMatch ==
    /\ pc = "try"
    /\ Len(matched) < MaxOffer \/ Endless(Self, string, start, matched)
    /\ IF Len(matched) < MaxOffer
       THEN \E t \in {PipeTry(Self, grammar, string, start, choices.pattern)} :
               IF t.hang
               THEN pc' = "hang" /\ UNCHANGED <<out, matched>>
               ELSE /\ out' = out \o t.out
                    /\ matched' = Append(matched, t.matched)
                    /\ pc' = "send"
       ELSE pc' = "send" /\ UNCHANGED <<out, matched>>
    /\ UNCHANGED <<grammar, name, string, start, i, matches, errlist, mark,
                   choices, err, parsed, valid>>

\* the second try of the loop of Pipe.matches: the producer is told
PipeSend ==
    /\ pc = "send"
    /\ LET next == ChoicesSend(Self, choices, Last(matched))
       IN  /\ choices' = IF next.n > MaxOffer THEN choices ELSE next
           /\ IF next.stop
              THEN /\ pc' = "drained"
                   /\ err' = IF AnyMatched(matched) THEN <<>>
                             ELSE <<BadState(Self, start)>>
              ELSE pc' = "try" /\ err' = err
    /\ UNCHANGED <<grammar, name, string, start, i, matches, errlist, mark,
                   matched, out, parsed, valid>>

\* Grammar.parse without its check of len(matches) > 1
GrammarParseFirst(g, n, s, cands, exc) ==
    IF exc # <<>> THEN Outcome("BadState", NoneTree, exc)
    ELSE IF Len(cands) < 1 THEN Outcome("BadState", NoneTree, <<BadState(g[n], 0)>>)
    ELSE Outcome("return", cands[1].which, <<>>)

\* Grammar.parse raising its own BadState for the one the rule raised
GrammarParseOwn(g, n, s, cands, exc) ==
    IF exc # <<>> \/ Len(cands) < 1
    THEN Outcome("BadState", NoneTree, <<BadState(g[n], 0)>>)
    ELSE IF Len(cands) > 1 THEN Outcome("BadGrammar", NoneTree, <<>>)
    ELSE Outcome("return", cands[1].which, <<>>)

\* Grammar.parse, once list(...) has drained the rule's matches
GrammarParse(g, n, s, cands, exc) ==
    IF exc # <<>> THEN Outcome("BadState", NoneTree, exc)
    ELSE IF Len(cands) > 1 THEN Outcome("BadGrammar", NoneTree, <<>>)
    ELSE IF Len(cands) < 1 THEN Outcome("BadState", NoneTree, <<BadState(g[n], 0)>>)
    ELSE Outcome("return", cands[1].which, <<>>)

Parse ==
    /\ pc = "drained"
    /\ start = 0
    /\ parsed' = GrammarParse(grammar, name, string, out, err)
    /\ pc' = "parsed"
    /\ UNCHANGED <<grammar, name, string, start, i, matches, errlist, mark,
                   choices, matched, out, err, valid>>

\* Grammar.is_valid with `except Exception`
GrammarIsValidAny(p) ==
    CASE p.kind = "return" ->
            Outcome("return", IF Truthy(p.val) THEN PyTrue ELSE p.val, <<>>)
      [] OTHER -> Outcome("return", PyFalse, <<>>)

\* Grammar.is_valid, once its call of parse is over
GrammarIsValid(p) ==
    CASE p.kind = "return" ->
            Outcome("return", IF Truthy(p.val) THEN PyTrue ELSE p.val, <<>>)
      [] p.kind = "BadState" -> Outcome("return", PyFalse, <<>>)
      [] OTHER -> p

IsValid ==
    /\ pc = "parsed"
    /\ valid' = GrammarIsValid(parsed)
    /\ pc' = "done"
    /\ UNCHANGED <<grammar, name, string, start, i, matches, errlist, mark,
                   choices, matched, out, err, parsed>>

Next ==
    \/ CallTerminal
    \/ CallEmpty
    \/ SeqBegin
    \/ SeqRound
    \/ SeqEnd
    \/ PipeBegin
    \/ PipeMatch
    \/ PipeSend
    \/ Parse
    \/ IsValid

Spec == Init /\ [][Next]_vars

\* The call of matches of a Star or of a Plus of patterns that are not
\* repetitions themselves, and the parse and is_valid around it.
Repetitions ==
    {Grammar([Fixed EXCEPT !.top = State(tag, sub)]) :
        tag \in {"Star", "Plus"}, sub \in Repeated}

RepInit == Init /\ grammar \in Repetitions

RepNext ==
    \/ PipeBegin
    \/ PipeMatch
    \/ PipeSend
    \/ Parse
    \/ IsValid

\* the interpreter runs the call on while a step is left to run
RepSpec == RepInit /\ [][RepNext]_vars /\ WF_vars(RepNext)

\* ------------------------------------------------------------ properties
Over == pc \in {"parsed", "done"}

RECURSIVE LeafText(_)
\* the matched text of the Terminal leaves of a tree, in tree order
LeafText(t) ==
    LET RECURSIVE Cat(_)
        Cat(kids) == IF kids = <<>> THEN <<>>
                     ELSE LeafText(kids[1]) \o Cat(Tail(kids))
    IN  IF t.k = "Leaf" THEN t.text ELSE Cat(t.kids)

\* the child list of the tree a named Seq yields
Children(t) == t.kids[1].kids

RECURSIVE Copies(_, _)
Copies(sub, n) == IF n = 0 THEN <<>> ELSE Copies(sub, n - 1) \o sub

\* the repeated pattern of a Star or a Plus matches n times in a row from start
Repeats(n) ==
    LET r == Matches(grammar, MkSeq(Copies(Self.sub, n)), string, start)
    IN  ~r.hang /\ r.err = <<>>

\* the repeated pattern yields no candidate at start
UnitFails == Matches(grammar, MkSeq(Self.sub), string, start).err # <<>>

Room == Len(string) - start

RECURSIVE RepeatsFrom(_)
\* the greatest m in n..Room + 1 such that the repeated pattern matches
\* n + 1, ..., m times in a row from start
RepeatsFrom(n) ==
    IF n <= Room /\ Repeats(n + 1) THEN RepeatsFrom(n + 1) ELSE n

\* k: how many times the repeated pattern matches in a row from start; more
\* than Room stands for no bound
K == RepeatsFrom(0)

\* a failed alternative is the last one offered
StopsAtFailure == \A j \in 1..Len(matched) : ~matched[j] => j = Len(matched)

\* an anonymous Seq, Star or Plus
Composite(p) == p.tag \in {"Seq", "Star", "Plus"}

\* a Terminal, or an anonymous Pipe of Terminals
Plain(p) ==
    \/ p.tag = "Terminal"
    \/ p.tag = "Pipe" /\ \A m \in 1..Len(p.sub) : p.sub[m].tag = "Terminal"

\* C1: is_valid returns True if and only if parse returns a tree
C1_ValidIffParsed ==
    pc = "done" =>
        ((valid.kind = "return" /\ valid.val = PyTrue) <=> parsed.kind = "return")

\* C2: a tree parse returns is the tree of the only candidate of the rule, and
\* that candidate ends at the end of the input
C2_ParseFullLength ==
    (Over /\ parsed.kind = "return") =>
        (Len(out) = 1 /\ out[1].end = Len(string))

\* C2, amended: a tree parse returns is the tree of the only candidate of the
\* rule, whose end is a position of the input, the last one or not
C2_ParseOnlyCandidate ==
    (Over /\ parsed.kind = "return") =>
        /\ err = <<>>
        /\ Len(out) = 1
        /\ parsed.val = out[1].which
        /\ out[1].end \in 0..Len(string)

\* C2, witness: parse returns the tree of a candidate that ends before the end of the input
C2_Witness ==
    /\ Over
    /\ parsed.kind = "return"
    /\ Len(out) = 1
    /\ out[1].end < Len(string)

\* C3: is_valid returns False exactly when parse raises BadState, and raises
\* BadGrammar when parse does
C3_OnlyBadStateSwallowed ==
    pc = "done" =>
        /\ (valid = Outcome("return", PyFalse, <<>>) <=> parsed.kind = "BadState")
        /\ (parsed.kind = "BadGrammar" => valid.kind = "BadGrammar")
        /\ (valid.kind = "BadGrammar" => Len(out) > 1)

\* C3, witness: is_valid raises BadGrammar for a Pipe whose two alternatives match to the same end
C3_Witness ==
    /\ pc = "done"
    /\ Self.tag = "Pipe"
    /\ valid.kind = "BadGrammar"
    /\ Len(out) = 2
    /\ out[1].end = out[2].end

\* C4: a rule without a candidate from 0 makes parse raise the BadState of that
\* rule at 0
C4_BadStateOfRuleAtZero ==
    (Over /\ out = <<>>) =>
        parsed = Outcome("BadState", NoneTree, <<BadState(Self, 0)>>)

\* C4, amended: a rule without a candidate from 0 makes parse raise a BadState:
\* the one of that rule at 0 when it is a Terminal, a Pipe or a Plus, and when
\* it is a Seq the last one its continuations recorded, whatever its pattern
\* and position
C4_BadStateRaised ==
    (Over /\ out = <<>>) =>
        /\ parsed.kind = "BadState"
        /\ Self.tag # "Seq" => parsed.exc = <<BadState(Self, 0)>>
        /\ Self.tag = "Seq" =>
              /\ Len(errlist) >= 2
              /\ parsed.exc = <<Last(errlist)>>
              /\ parsed.exc[1].pos \in 0..Len(string)

\* C4, witness: parse raises the BadState of a sub-pattern of a Seq, further than 0
C4_Witness ==
    /\ Over
    /\ out = <<>>
    /\ Self.tag = "Seq"
    /\ parsed.kind = "BadState"
    /\ parsed.exc[1].pos > 0
    /\ parsed.exc[1].exp # Self

\* C5: the text of the leaves of a candidate's tree is the input from start to
\* the candidate's end
C5_LeafTextIsConsumed ==
    \A j \in 1..Len(out) :
        /\ out[j].end \in start..Len(string)
        /\ LeafText(out[j].which) = SubSeq(string, start + 1, out[j].end)

\* C5, witness: a Seq called from a position that is not 0 yields a candidate of two
\* characters or more with fewer children than sub-patterns
C5_Witness ==
    /\ pc = "drained"
    /\ start > 0
    /\ Self.tag = "Seq"
    /\ \E j \in 1..Len(out) :
          /\ out[j].end > start + 1
          /\ Len(Children(out[j].which)) < Len(Self.sub)

\* C6: what an anonymous composite sub-pattern of a Seq matched is in the
\* child list of the Seq without a list around it
C6_NoListAmongChildren ==
    (pc = "drained" /\ Self.tag = "Seq"
        /\ \E n \in 1..Len(Self.sub) : Composite(Self.sub[n])) =>
        \A j \in 1..Len(out) :
            \A c \in 1..Len(Children(out[j].which)) :
                Children(out[j].which)[c].k # "List"

\* C6, amended: a Seq has at most one child for each of its sub-patterns; what
\* an anonymous Seq, Star or Plus sub-pattern matched is one child, a list that
\* is not empty, and nothing when it matched nothing; what an anonymous Pipe
\* matched is the child its alternative gave, as it is; a (name, children)
\* child bears the name of a registered pattern
C6_ListAmongChildren ==
    (pc = "drained" /\ Self.tag = "Seq") =>
        \A j \in 1..Len(out) :
            LET kids == Children(out[j].which)
            IN  /\ out[j].which.k = "Node"
                /\ out[j].which.name = name
                /\ Len(kids) <= Len(Self.sub)
                /\ \A c \in 1..Len(kids) :
                      /\ kids[c].k \in {"Leaf", "List", "Node"}
                      /\ kids[c].k = "List" => kids[c].kids # <<>>
                      /\ kids[c].k = "Node" => kids[c].name \in DOMAIN grammar
                /\ (\A n \in 1..Len(Self.sub) : Composite(Self.sub[n])) =>
                      \A c \in 1..Len(kids) : kids[c].k = "List"
                /\ (\A n \in 1..Len(Self.sub) : Plain(Self.sub[n])) =>
                      /\ Len(kids) = Len(Self.sub)
                      /\ \A c \in 1..Len(kids) : kids[c].k = "Leaf"

\* C6, witness: the Star that begins a Seq matched twice and gave the Seq one child, a list
\* of two
C6_Witness ==
    /\ pc = "drained"
    /\ Self.tag = "Seq"
    /\ Len(Self.sub) = 2
    /\ Self.sub[1].tag = "Star"
    /\ \E j \in 1..Len(out) :
          /\ Len(Children(out[j].which)) = 2
          /\ Children(out[j].which)[1].k = "List"
          /\ Len(Children(out[j].which)[1].kids) = 2

\* C7: where the repeated pattern has no candidate, a Star yields one
\* candidate, of width zero and without a child, and raises nothing, and a Plus
\* yields none and raises BadState
C7_StarMatchesPlusFails ==
    (Self.tag \in {"Star", "Plus"} /\ UnitFails) =>
        /\ pc # "hang"
        /\ (pc = "drained" /\ Self.tag = "Star") =>
              /\ err = <<>>
              /\ out = <<Cand(Node(name, ListTree(<<>>)), start)>>
        /\ (pc = "drained" /\ Self.tag = "Plus") =>
              /\ out = <<>>
              /\ err = <<BadState(Self, start)>>

\* C7, witness: a Star called inside the input, where its pattern has no candidate, has
\* yielded its candidate
C7_Witness ==
    /\ pc = "drained"
    /\ Self.tag = "Star"
    /\ UnitFails
    /\ start > 0
    /\ start < Len(string)
    /\ Len(out) = 1

\* C8: the matches of a Star or of a Plus comes to an end
C8_Terminates ==
    (Self.tag \in {"Star", "Plus"}) => <>(pc \in {"drained", "parsed", "done"})

\* C9: a Star or a Plus whose repeated pattern matches at most k times in a row
\* has at most k+1 alternatives tried, none after one that failed
C9_AtMostKPlusOne ==
    Self.tag \in {"Star", "Plus"} =>
        \A k \in {K} :
            k <= Room =>
                /\ Len(matched) <= k + 1
                /\ StopsAtFailure

\* C9, amended: a Plus whose repeated pattern matches at most k times in a row
\* has at most k+1 alternatives tried, a Star at most k+2 (the empty sequence,
\* the k repetitions and the one that fails), none after one that failed
C9_AtMostKPlusTwo ==
    Self.tag \in {"Star", "Plus"} =>
        \A k \in {K} :
            k <= Room =>
                /\ Self.tag = "Plus" => Len(matched) <= k + 1
                /\ Self.tag = "Star" => Len(matched) <= k + 2
                /\ StopsAtFailure
                /\ (pc = "drained" /\ Self.tag = "Plus") => Len(matched) = k + 1
                /\ (pc = "drained" /\ Self.tag = "Star") => Len(matched) = k + 2

\* C9, witness: a Star whose pattern matches twice in a row, and could match more often
\* were the input to allow it, has tried four alternatives
C9_Witness ==
    /\ pc = "drained"
    /\ Self.tag = "Star"
    /\ K = 2
    /\ Room > 2
    /\ Len(matched) = 4
    /\ ~Last(matched)

\* C10: the BadState a failing Seq raises is the last one recorded, and none
\* recorded in that round is further into the input
C10_RaisesFurthest ==
    (pc = "drained" /\ Self.tag = "Seq" /\ err # <<>>) =>
        /\ err = <<Last(errlist)>>
        /\ \A j \in (mark + 1)..Len(errlist) : errlist[j].pos <= err[1].pos

====
